---- MODULE Spec2Model ----
(***************************************************************************)
(* Model of the Game class of src/js/Game.js (Saper, a minesweeper).       *)
(*                                                                         *)
(* The board is the array #cells[row][col]; every array is a function on   *)
(* 0..n-1.  The event handlers run to completion one at a time; #newGame   *)
(* is split at the rejection-sampling loop of #placeMinesInCells, one      *)
(* action per iteration, and pc says where the program is: no other        *)
(* handler runs while the loop does.                                       *)
(*                                                                         *)
(* Cell.js and Counter.js are not among the sources: Cell, addMine,        *)
(* revealCell, toggleFlag and the counter arithmetic follow the            *)
(* description of the cell and of the remaining-flags counter.             *)
(***************************************************************************)
EXTENDS Integers, FiniteSets, Sequences, TLC

VARIABLES
    pc,              \* "construct" | "placeMines" | "idle"
    numberOfRowes,   \* #numberOfRowes (0 models null)
    numberOfCols,    \* #numberOfCols
    numberOfMines,   \* #numberOfMines
    cells,           \* #cells[row][col]
    cellsToReveal,   \* #cellsToReveal
    revealedCells,   \* #revealedCells
    isGameFinished,  \* #isGameFinished
    counter,         \* #counter.value
    emotion,         \* face of #buttons.reset: "neutral" | "negative" | "positive"
    minesToPlace,    \* the local minesToPlace of #placeMinesInCells
    endGameCalls     \* history: calls of #endGame since the last #newGame

vars == <<pc, numberOfRowes, numberOfCols, numberOfMines, cells, cellsToReveal,
          revealedCells, isGameFinished, counter, emotion, minesToPlace,
          endGameCalls>>

(***************************************************************************)
(* Bounds.                                                                 *)
(***************************************************************************)
\* reveal requests are accepted while #revealedCells is below this cap
MaxRevealed == 9
\* sizes and surplus of the triples handed to #newGame in SpecPlace
MaxRows == 2
MaxCols == 3
MaxExcess == 1

(***************************************************************************)
(* The difficulty presets, scaled down from 8x8/10, 16x16/40 and 30x16/99. *)
(***************************************************************************)
config ==
    [easy   |-> [rows |-> 3, cols |-> 3, mines |-> 1],
     normal |-> [rows |-> 2, cols |-> 3, mines |-> 2],
     expert |-> [rows |-> 3, cols |-> 2, mines |-> 2]]

Presets == {"easy", "normal", "expert"}

Max(a, b) == IF a >= b THEN a ELSE b
Min(a, b) == IF a <= b THEN a ELSE b

(***************************************************************************)
(* Cell.                                                                   *)
(***************************************************************************)
Cell(x, y) ==
    [x |-> x, y |-> y, value |-> 0,
     isMine |-> FALSE, isReveal |-> FALSE, isFlagged |-> FALSE]

addMine(cell) == [cell EXCEPT !.isMine = TRUE]

revealCell(cell) == [cell EXCEPT !.isReveal = TRUE]

toggleFlag(cell) ==
    IF cell.isReveal THEN cell ELSE [cell EXCEPT !.isFlagged = ~@]

(***************************************************************************)
(* Counter.                                                                *)
(***************************************************************************)
increment(v) == v + 1
decrement(v) == v - 1

(***************************************************************************)
(* Board helpers.                                                          *)
(***************************************************************************)
RowIdx == 0 .. numberOfRowes - 1
ColIdx == 0 .. numberOfCols - 1
Positions == RowIdx \X ColIdx

\* this.#cells.length = 0
Truncate(arr) == [i \in {} |-> arr[i]]

\* faulty variant of generateCells: the old rows are not dropped first
generateCellsNoClear(old, rows, cols) ==
    [row \in (DOMAIN old) \cup (0 .. rows - 1) |->
        IF row \in 0 .. rows - 1
        THEN [col \in 0 .. cols - 1 |-> Cell(col, row)]
        ELSE old[row]]

generateCells(old, rows, cols) ==
    LET cleared == Truncate(old)
    IN  [row \in (DOMAIN cleared) \cup (0 .. rows - 1) |->
            IF row \in 0 .. rows - 1
            THEN [col \in 0 .. cols - 1 |-> Cell(col, row)]
            ELSE cleared[row]]

\* the 3x3 window of both loops of #setCellValue, clamped to the board
Window(cell) ==
    (Max(cell.y - 1, 0) .. Min(cell.y + 1, numberOfRowes - 1))
    \X (Max(cell.x - 1, 0) .. Min(cell.x + 1, numberOfCols - 1))

minesCount(cs, cell) ==
    Cardinality({p \in Window(cell) : cs[p[1]][p[2]].isMine})

\* faulty variant of WindowSeq: the column loop of the cascade stops one column early
WindowSeqShort(cell) ==
    LET r0 == Max(cell.y - 1, 0)
        c0 == Max(cell.x - 1, 0)
        nr == Min(cell.y + 1, numberOfRowes - 1) - r0 + 1
        nc == Min(cell.x + 1, numberOfCols - 1) - c0
    IN  [i \in 1 .. nr * nc |-> <<r0 + ((i - 1) \div nc), c0 + ((i - 1) % nc)>>]

\* the window in the order the nested loops visit it
WindowSeq(cell) ==
    LET r0 == Max(cell.y - 1, 0)
        c0 == Max(cell.x - 1, 0)
        nr == Min(cell.y + 1, numberOfRowes - 1) - r0 + 1
        nc == Min(cell.x + 1, numberOfCols - 1) - c0 + 1
    IN  [i \in 1 .. nr * nc |-> <<r0 + ((i - 1) \div nc), c0 + ((i - 1) % nc)>>]

(***************************************************************************)
(* The part of the game a reveal works on.                                 *)
(***************************************************************************)
Game ==
    [cells |-> cells, isGameFinished |-> isGameFinished,
     revealedCells |-> revealedCells, emotion |-> emotion,
     endGameCalls |-> endGameCalls]

\* faulty variant of revealMines: flagged hazards stay hidden
revealMinesUnflagged(cs) ==
    [row \in DOMAIN cs |-> [col \in DOMAIN cs[row] |->
        IF cs[row][col].isMine /\ ~cs[row][col].isFlagged
        THEN revealCell(cs[row][col]) ELSE cs[row][col]]]

revealMines(cs) ==
    [row \in DOMAIN cs |-> [col \in DOMAIN cs[row] |->
        IF cs[row][col].isMine THEN revealCell(cs[row][col]) ELSE cs[row][col]]]

\* faulty variant of endGame: a loss does not finish the game
endGameLossOpen(g, isWin) ==
    IF ~isWin
    THEN [g EXCEPT !.endGameCalls = @ + 1,
                   !.cells = revealMines(@), !.emotion = "negative"]
    ELSE [g EXCEPT !.isGameFinished = TRUE, !.endGameCalls = @ + 1,
                   !.emotion = "positive"]

endGame(g, isWin) ==
    LET g1 == [g EXCEPT !.isGameFinished = TRUE, !.endGameCalls = @ + 1]
    IN  IF ~isWin
        THEN [g1 EXCEPT !.cells = revealMines(@), !.emotion = "negative"]
        ELSE [g1 EXCEPT !.emotion = "positive"]

\* faulty variant of isBlocked: a finished game still accepts reveals
isBlockedFlagOnly(g, row, col) == g.cells[row][col].isFlagged

\* faulty variant of isBlocked: a flag does not stop a reveal
isBlockedFinishedOnly(g, row, col) == g.isGameFinished

\* the early return of #clickCell
isBlocked(g, row, col) == g.isGameFinished \/ g.cells[row][col].isFlagged

\* faulty variant of isWon: the win test is off by one
isWonEarly(g) == g.revealedCells + 1 = cellsToReveal /\ ~g.isGameFinished

\* faulty variant of isWon: the win test does not look at #isGameFinished
isWonAgain(g) == g.revealedCells = cellsToReveal

\* the win test of #clickCell
isWon(g) == g.revealedCells = cellsToReveal /\ ~g.isGameFinished

RECURSIVE clickCell(_, _, _), cascade(_, _, _)

\* faulty variant of setCellValue: the reveal is counted here and by the caller
setCellValueDouble(g, row, col) ==
    LET cell == g.cells[row][col]
        n    == minesCount(g.cells, cell)
        g1   == [g EXCEPT !.cells[row][col] = revealCell([@ EXCEPT !.value = n]),
                          !.revealedCells = @ + 2]
    IN  IF n = 0 THEN cascade(g1, WindowSeq(cell), 1) ELSE g1

setCellValue(g, row, col) ==
    LET cell == g.cells[row][col]
        n    == minesCount(g.cells, cell)
        g1   == [g EXCEPT !.cells[row][col] = revealCell([@ EXCEPT !.value = n]),
                          !.revealedCells = @ + 1]
    IN  IF n = 0 THEN cascade(g1, WindowSeq(cell), 1) ELSE g1

cascade(g, w, i) ==
    IF i > Len(w) THEN g
    ELSE cascade(IF ~g.cells[w[i][1]][w[i][2]].isReveal
                 THEN clickCell(g, w[i][1], w[i][2]) ELSE g,
                 w, i + 1)

clickCell(g, row, col) ==
    IF isBlocked(g, row, col) THEN g
    ELSE LET g1 == IF g.cells[row][col].isMine THEN endGame(g, FALSE) ELSE g
             g2 == setCellValue(g1, row, col)
         IN  IF isWon(g2) THEN endGame(g2, TRUE) ELSE g2

(***************************************************************************)
(* Actions.                                                                *)
(***************************************************************************)
Init ==
    /\ pc = "construct"
    /\ numberOfRowes = 0
    /\ numberOfCols = 0
    /\ numberOfMines = 0
    /\ cells = Truncate(<<>>)
    /\ cellsToReveal = 0
    /\ revealedCells = 0
    /\ isGameFinished = FALSE
    /\ counter = 0
    /\ emotion = "neutral"
    /\ minesToPlace = 0
    /\ endGameCalls = 0

\* #newGame up to the first test of the loop of #placeMinesInCells
newGame(rows, cols, mines) ==
    /\ numberOfMines' = mines
    /\ numberOfCols' = cols
    /\ numberOfRowes' = rows
    /\ counter' = mines
    /\ cellsToReveal' = cols * rows - mines
    /\ cells' = generateCells(cells, rows, cols)
    /\ minesToPlace' = mines
    /\ pc' = "placeMines"
    /\ UNCHANGED <<isGameFinished, revealedCells, emotion, endGameCalls>>

initializeGame ==
    /\ pc = "construct"
    /\ newGame(config.easy.rows, config.easy.cols, config.easy.mines)

handleNewGameClick(rows, cols, mines) ==
    /\ pc = "idle"
    /\ newGame(rows, cols, mines)

PresetClick == \E k \in Presets :
    handleNewGameClick(config[k].rows, config[k].cols, config[k].mines)

ResetClick == handleNewGameClick(numberOfRowes, numberOfCols, numberOfMines)

\* faulty variant of placeMine: a collision is counted as a placed mine
placeMineBlind(cs, left, rowIndex, colIndex) ==
    [cells |-> [cs EXCEPT ![rowIndex][colIndex] = addMine(@)], left |-> left - 1]

\* one iteration of the loop of #placeMinesInCells
placeMine(cs, left, rowIndex, colIndex) ==
    IF ~cs[rowIndex][colIndex].isMine
    THEN [cells |-> [cs EXCEPT ![rowIndex][colIndex] = addMine(@)],
          left |-> left - 1]
    ELSE [cells |-> cs, left |-> left]

PlaceStep(rowIndex, colIndex) ==
    /\ pc = "placeMines"
    /\ minesToPlace # 0
    /\ rowIndex \in RowIdx
    /\ colIndex \in ColIdx
    /\ LET r == placeMine(cells, minesToPlace, rowIndex, colIndex)
       IN  /\ cells' = r.cells
           /\ minesToPlace' = r.left
    /\ UNCHANGED <<pc, numberOfRowes, numberOfCols, numberOfMines, cellsToReveal,
                   revealedCells, isGameFinished, counter, emotion, endGameCalls>>

placeMinesInCells == \E rowIndex \in RowIdx, colIndex \in ColIdx :
    PlaceStep(rowIndex, colIndex)

\* #newGame after the loop
newGameEnd ==
    /\ pc = "placeMines"
    /\ minesToPlace = 0
    /\ emotion' = "neutral"
    /\ isGameFinished' = FALSE
    /\ revealedCells' = 0
    /\ endGameCalls' = 0
    /\ pc' = "idle"
    /\ UNCHANGED <<numberOfRowes, numberOfCols, numberOfMines, cells,
                   cellsToReveal, counter, minesToPlace>>

handleCellClick(row, col) ==
    /\ pc = "idle"
    /\ revealedCells < MaxRevealed
    /\ row \in RowIdx
    /\ col \in ColIdx
    /\ LET g == clickCell(Game, row, col)
       IN  /\ cells' = g.cells
           /\ isGameFinished' = g.isGameFinished
           /\ revealedCells' = g.revealedCells
           /\ emotion' = g.emotion
           /\ endGameCalls' = g.endGameCalls
    /\ UNCHANGED <<pc, numberOfRowes, numberOfCols, numberOfMines, cellsToReveal,
                   counter, minesToPlace>>

\* faulty variant of contextMenu: a flag is placed also when the counter is 0
contextMenuNoLimit(cs, cnt, fin, row, col) ==
    IF cs[row][col].isReveal \/ fin THEN [cells |-> cs, counter |-> cnt]
    ELSE IF cs[row][col].isFlagged
    THEN [cells |-> [cs EXCEPT ![row][col] = toggleFlag(@)],
          counter |-> increment(cnt)]
    ELSE [cells |-> [cs EXCEPT ![row][col] = toggleFlag(@)],
          counter |-> decrement(cnt)]

\* faulty variant of contextMenu: taking a flag back does not raise the counter
contextMenuNoIncrement(cs, cnt, fin, row, col) ==
    IF cs[row][col].isReveal \/ fin THEN [cells |-> cs, counter |-> cnt]
    ELSE IF cs[row][col].isFlagged
    THEN [cells |-> [cs EXCEPT ![row][col] = toggleFlag(@)], counter |-> cnt]
    ELSE IF cnt # 0
    THEN [cells |-> [cs EXCEPT ![row][col] = toggleFlag(@)],
          counter |-> decrement(cnt)]
    ELSE [cells |-> cs, counter |-> cnt]

\* the body of #handleCellContextMenu
contextMenu(cs, cnt, fin, row, col) ==
    IF cs[row][col].isReveal \/ fin THEN [cells |-> cs, counter |-> cnt]
    ELSE IF cs[row][col].isFlagged
    THEN [cells |-> [cs EXCEPT ![row][col] = toggleFlag(@)],
          counter |-> increment(cnt)]
    ELSE IF cnt # 0
    THEN [cells |-> [cs EXCEPT ![row][col] = toggleFlag(@)],
          counter |-> decrement(cnt)]
    ELSE [cells |-> cs, counter |-> cnt]

handleCellContextMenu(row, col) ==
    /\ pc = "idle"
    /\ row \in RowIdx
    /\ col \in ColIdx
    /\ LET r == contextMenu(cells, counter, isGameFinished, row, col)
       IN  /\ cells' = r.cells
           /\ counter' = r.counter
    /\ UNCHANGED <<pc, numberOfRowes, numberOfCols, numberOfMines, cellsToReveal,
                   revealedCells, isGameFinished, emotion, minesToPlace,
                   endGameCalls>>

CellClick == \E row \in RowIdx, col \in ColIdx : handleCellClick(row, col)

CellContextMenu == \E row \in RowIdx, col \in ColIdx :
    handleCellContextMenu(row, col)

Next ==
    \/ initializeGame
    \/ PresetClick
    \/ ResetClick
    \/ placeMinesInCells
    \/ newGameEnd
    \/ CellClick
    \/ CellContextMenu

Spec == Init /\ [][Next]_vars

(***************************************************************************)
(* #newGame with any triple, for the placement loop on its own.            *)
(***************************************************************************)
CustomNewGame ==
    \E rows \in 1 .. MaxRows, cols \in 1 .. MaxCols :
        \E mines \in 0 .. rows * cols + MaxExcess :
            handleNewGameClick(rows, cols, mines)

NextPlace ==
    \/ initializeGame
    \/ CustomNewGame
    \/ placeMinesInCells
    \/ newGameEnd

\* Math.random eventually yields every position, and the handler runs on
FairRows == 0 .. Max(MaxRows, config.easy.rows) - 1
FairCols == 0 .. Max(MaxCols, config.easy.cols) - 1

SpecPlace ==
    /\ Init
    /\ [][NextPlace]_vars
    /\ \A rowIndex \in FairRows, colIndex \in FairCols :
          WF_vars(PlaceStep(rowIndex, colIndex))
    /\ WF_vars(newGameEnd)

(***************************************************************************)
(* Vocabulary of the claims.                                               *)
(***************************************************************************)
At(p) == cells[p[1]][p[2]]
Active == pc = "idle" /\ ~isGameFinished
Win == pc = "idle" /\ isGameFinished /\ emotion = "positive"
Loss == pc = "idle" /\ isGameFinished /\ emotion = "negative"
MinePositions == {p \in Positions : At(p).isMine}
HazardRevealed == \E p \in Positions : At(p).isMine /\ At(p).isReveal
FlaggedPositions == {p \in Positions : At(p).isFlagged}
Adjacent(p, q) ==
    /\ p # q
    /\ q[1] - p[1] \in -1 .. 1
    /\ q[2] - p[2] \in -1 .. 1
\* no hazard in the 8-neighbourhood of a non-hazard cell
ZeroCell(p) == ~At(p).isMine /\ \A q \in Positions : Adjacent(p, q) => ~At(q).isMine
Hidden(p) == ~At(p).isReveal /\ ~At(p).isFlagged

(***************************************************************************)
(* Claims.                                                                 *)
(***************************************************************************)

\* C1: in every state of a session, after any sequence of reveal requests
\* (repeated ones on a revealed cell included), flag requests and cascades,
\* revealedCount is at most rows*cols - hazardCount.
C1_RevealedWithinBound == pc = "idle" => revealedCells <= cellsToReveal

\* C2: the session is in Finished(Win) exactly when revealedCount equals
\* cellsToReveal and no hazard cell has been revealed in this session.
C2_WinIffBoundReached ==
    pc = "idle" =>
        ((isGameFinished /\ emotion = "positive")
            <=> (revealedCells = cellsToReveal /\ ~HazardRevealed))

\* a won session whose counter reached the bound
C2_Witness == Win /\ revealedCells = cellsToReveal /\ revealedCells > 0

\* C3: a reveal request on an unflagged hazard cell of an Active session
\* ends the session as Finished(Loss), never as Finished(Win), whatever
\* revealedCount is.
C3_HazardRevealLoses ==
    [][\A row \in RowIdx, col \in ColIdx :
          (/\ ~isGameFinished
           /\ cells[row][col].isMine
           /\ ~cells[row][col].isFlagged
           /\ handleCellClick(row, col))
          => (isGameFinished' /\ emotion' = "negative"
              /\ endGameCalls' = 1)]_vars

\* a lost session in which the hazard reveal brought revealedCount to the
\* win bound
C3_Witness == Loss /\ revealedCells = cellsToReveal /\ HazardRevealed

\* C4: once the session is Finished, nothing but the start of a new session
\* changes a cell, revealedCount, the remaining-flags counter or the session
\* state.
C4_FinishedIsFrozen ==
    [][(pc = "idle" /\ isGameFinished /\ pc' = "idle")
          => UNCHANGED <<cells, revealedCells, counter, isGameFinished,
                         emotion, endGameCalls>>]_vars

\* a finished session that still has a hidden cell to reveal or flag, a flag
\* to take back and flags left to place
C4_Witness ==
    /\ pc = "idle"
    /\ isGameFinished
    /\ revealedCells < MaxRevealed
    /\ counter > 0
    /\ \E p \in Positions : Hidden(p) /\ ~At(p).isMine
    /\ \E p \in Positions : At(p).isFlagged /\ ~At(p).isReveal

\* C5: a constructed session has exactly hazardCount hazard cells, and the
\* number stays hazardCount through every reveal and flag request; while the
\* placement runs, the hazards placed plus those still to place make
\* hazardCount.
C5_HazardCount ==
    /\ pc = "idle" => Cardinality(MinePositions) = numberOfMines
    /\ pc = "placeMines" =>
          Cardinality(MinePositions) + minesToPlace = numberOfMines

\* a session with two hazards in which cells have been revealed and flagged
C5_Witness ==
    /\ pc = "idle"
    /\ numberOfMines = 2
    /\ Cardinality(MinePositions) = 2
    /\ revealedCells > 0
    /\ FlaggedPositions # {}

\* C6: the remaining-flags counter is hazardCount in a new session, goes down
\* by one with each flag placed and up by one with each flag removed, stays
\* within 0..hazardCount, and a flag request on an unflagged cell while the
\* counter is 0 changes nothing.
C6_FlagCounter ==
    [][/\ pc' = "idle" => counter' \in 0 .. numberOfMines'
       /\ newGameEnd => counter' = numberOfMines'
       /\ \A row \in RowIdx, col \in ColIdx :
             handleCellContextMenu(row, col) =>
                /\ (~cells[row][col].isFlagged /\ cells'[row][col].isFlagged)
                      => counter' = counter - 1
                /\ (cells[row][col].isFlagged /\ ~cells'[row][col].isFlagged)
                      => counter' = counter + 1
                /\ cells'[row][col].isFlagged = cells[row][col].isFlagged
                      => counter' = counter
                /\ (counter = 0 /\ ~cells[row][col].isFlagged)
                      => UNCHANGED vars]_vars

\* an Active session with no flag left and a hidden cell to ask a flag for
C6_Witness ==
    /\ Active
    /\ counter = 0
    /\ numberOfMines = 2
    /\ \E p \in Positions : Hidden(p)

\* the cells a cascade from p must reveal: those reached from p through a
\* chain of adjacent cells that are hidden, unflagged and have no hazard
\* around them
RECURSIVE CascadeClosure(_)
CascadeClosure(S) ==
    LET T == S \cup {q \in Positions :
                        Hidden(q) /\ \E p \in S : ZeroCell(p) /\ Adjacent(p, q)}
    IN  IF T = S THEN S ELSE CascadeClosure(T)

\* C7: a reveal request of an Active session on a hidden, unflagged
\* non-hazard cell with no hazard around it reveals that cell and every cell
\* reachable from it through a chain of adjacent zero-adjacency cells, and
\* reveals no cell that was flagged when the request was made.
C7_CascadeRevealsRegion ==
    [][\A row \in RowIdx, col \in ColIdx :
          (/\ ~isGameFinished
           /\ Hidden(<<row, col>>)
           /\ ZeroCell(<<row, col>>)
           /\ handleCellClick(row, col))
          => /\ \A p \in CascadeClosure({<<row, col>>}) :
                   cells'[p[1]][p[2]].isReveal
             /\ \A p \in FlaggedPositions : ~cells'[p[1]][p[2]].isReveal]_vars

\* the board of the scenario: 3x3, one hazard at (2,2), nothing revealed or
\* flagged
Fresh3x3 ==
    /\ Active
    /\ numberOfRowes = 3 /\ numberOfCols = 3 /\ numberOfMines = 1
    /\ MinePositions = {<<2, 2>>}
    /\ revealedCells = 0
    /\ \A p \in Positions : Hidden(p)

\* C8 as stated: on the fresh 3x3 board with the hazard at (2,2), a reveal
\* request on (0,0) gives (0,0) adjacentCount 0, reveals (0,1), (1,0) and
\* (1,1), leaves revealedCount at 4 and the session Active.
C8_ScenarioAsStated ==
    [][(Fresh3x3 /\ handleCellClick(0, 0))
          => /\ cells'[0][0].value = 0
             /\ \A p \in {<<0, 0>>, <<0, 1>>, <<1, 0>>, <<1, 1>>} :
                   cells'[p[1]][p[2]].isReveal
             /\ revealedCells' = 4
             /\ ~isGameFinished']_vars

\* C8: on the fresh 3x3 board with the hazard at (2,2), a reveal request on
\* (0,0) gives (0,0) adjacentCount 0, reveals (0,1), (1,0), (1,1) and the
\* four other non-hazard cells, leaves the hazard hidden, revealedCount at 8
\* and the session in Finished(Win).
C8_ScenarioWins ==
    [][(Fresh3x3 /\ handleCellClick(0, 0))
          => /\ cells'[0][0].value = 0
             /\ \A p \in Positions :
                   cells'[p[1]][p[2]].isReveal <=> p # <<2, 2>>
             /\ cells'[1][1].value = 1
             /\ revealedCells' = 8
             /\ cellsToReveal' = 8
             /\ isGameFinished' /\ emotion' = "positive"]_vars

\* the board of the scenario after the one reveal request
C8_Witness ==
    /\ Win
    /\ numberOfRowes = 3 /\ numberOfCols = 3
    /\ MinePositions = {<<2, 2>>}
    /\ revealedCells = 8
    /\ \A p \in Positions : At(p).isReveal <=> p # <<2, 2>>
    /\ cells[0][0].value = 0

\* the state a completed #newGame leaves
FreshSession ==
    /\ pc = "idle"
    /\ ~isGameFinished
    /\ emotion = "neutral"
    /\ revealedCells = 0
    /\ counter = numberOfMines
    /\ cellsToReveal = numberOfRowes * numberOfCols - numberOfMines
    /\ DOMAIN cells = RowIdx
    /\ \A row \in DOMAIN cells :
          /\ DOMAIN cells[row] = ColIdx
          /\ \A col \in DOMAIN cells[row] :
                /\ cells[row][col].x = col
                /\ cells[row][col].y = row
                /\ ~cells[row][col].isReveal
                /\ ~cells[row][col].isFlagged

\* C9: a new session started from any state is Active with revealedCount 0,
\* the remaining-flags counter at hazardCount, cellsToReveal = rows*cols -
\* hazardCount and a board of exactly rows x cols cells at their own
\* coordinates, none revealed or flagged.
C9_NewSessionIsFresh == [][newGameEnd => FreshSession']_vars

\* a new session about to start on a smaller board after a finished one with
\* revealed cells
C9_Witness ==
    /\ pc = "placeMines"
    /\ minesToPlace = 0
    /\ isGameFinished
    /\ revealedCells > 0
    /\ numberOfRowes = 2

\* C10 as stated: the placement ends for every count below rows*cols and
\* never ends for any count of rows*cols or more.
C10_TerminatesIffBelow ==
    /\ (pc = "placeMines" /\ numberOfMines < numberOfRowes * numberOfCols)
          ~> (minesToPlace = 0)
    /\ [](pc = "placeMines" /\ numberOfMines >= numberOfRowes * numberOfCols
              => minesToPlace # 0)

\* C10: under a random source that eventually yields every position, the
\* placement ends for every count from 0 to rows*cols, and never ends for a
\* count above rows*cols.
C10_TerminatesIffFits ==
    /\ (pc = "placeMines" /\ numberOfMines <= numberOfRowes * numberOfCols)
          ~> (minesToPlace = 0)
    /\ [](pc = "placeMines" /\ numberOfMines > numberOfRowes * numberOfCols
              => minesToPlace # 0)

\* a placement that has ended with a hazard on every cell
C10_Witness ==
    /\ pc = "placeMines"
    /\ minesToPlace = 0
    /\ numberOfMines = numberOfRowes * numberOfCols
    /\ numberOfMines > 1
    /\ MinePositions = Positions

\* C11: a request to start a session with hazardCount >= rows*cols is
\* rejected before anything is constructed: no cells are generated, no hazard
\* is placed and the previous session state is left unchanged.
C11_InvalidConfigurationRejected ==
    [][\A rows \in 1 .. MaxRows, cols \in 1 .. MaxCols :
          \A mines \in 0 .. rows * cols + MaxExcess :
             (mines >= rows * cols /\ handleNewGameClick(rows, cols, mines))
                => UNCHANGED vars]_vars

\* the number of cells whose isReveal is set
RevealedPositions == {p \in Positions : At(p).isReveal}

\* C12: a reveal request on an already revealed cell does not change
\* revealedCount: in every Active state revealedCount is the number of
\* revealed cells.
C12_CountIsRevealedCells ==
    Active => revealedCells = Cardinality(RevealedPositions)

\* C13: in Finished(Win) every non-hazard cell is revealed and no hazard cell
\* is revealed.
C13_WinRevealsAllSafeCells ==
    Win => \A p \in Positions : At(p).isReveal <=> ~At(p).isMine

\* C14: no Active session has every non-hazard cell revealed: the reveal
\* request that reveals the last hidden non-hazard cell leaves the session in
\* Finished(Win).
C14_NoActiveSessionFullyRevealed ==
    Active => \E p \in Positions : ~At(p).isMine /\ ~At(p).isReveal

\* the hazards among the in-bounds neighbours of p, p itself left out
NeighbourHazards(p) ==
    Cardinality({q \in Positions : Adjacent(p, q) /\ At(q).isMine})

\* C15: every cell a reveal request reveals, the hazard that triggers a loss
\* included, gets as adjacentCount the number of hazard cells among its
\* in-bounds 8 neighbours, itself excluded, a number in 0..8.
C15_AdjacentCountIsNeighbourHazards ==
    [][\A row \in RowIdx, col \in ColIdx :
          (/\ ~isGameFinished
           /\ ~cells[row][col].isFlagged
           /\ handleCellClick(row, col))
          => \A p \in Positions :
                (\/ p = <<row, col>>
                 \/ (~At(p).isMine /\ ~At(p).isReveal
                     /\ cells'[p[1]][p[2]].isReveal))
                => /\ cells'[p[1]][p[2]].value = NeighbourHazards(p)
                   /\ cells'[p[1]][p[2]].value \in 0 .. 8]_vars

\* C16: between two new sessions #endGame runs at most once, and the session
\* is finished exactly when it has run: not again on the way out of a
\* cascade that won, and not again when a hazard reveal brings the counter to
\* the win bound.
C16_EndedOnce ==
    /\ endGameCalls <= 1
    /\ isGameFinished <=> endGameCalls = 1

\* a session won inside a cascade (zero-adjacency cells are revealed)
C16_Witness ==
    /\ Win
    /\ endGameCalls = 1
    /\ revealedCells = cellsToReveal
    /\ \E p \in Positions : At(p).isReveal /\ ZeroCell(p)

\* C17: a reveal request ends, and counts each cell it processes once: the
\* counter grows by the number of non-hazard cells the request newly reveals,
\* plus one when the target was already revealed or is a hazard; so by at
\* most rows*cols.
C17_EachCellProcessedOnce ==
    [][\A row \in RowIdx, col \in ColIdx :
          (/\ ~isGameFinished
           /\ ~cells[row][col].isFlagged
           /\ counter' = counter
           /\ pc' = pc
           /\ handleCellClick(row, col))
          => LET new == {p \in Positions :
                            /\ ~At(p).isMine
                            /\ ~At(p).isReveal
                            /\ cells'[p[1]][p[2]].isReveal}
                 again == IF cells[row][col].isReveal \/ cells[row][col].isMine
                          THEN 1 ELSE 0
             IN  /\ revealedCells' - revealedCells = Cardinality(new) + again
                 /\ revealedCells' - revealedCells
                       <= numberOfRowes * numberOfCols]_vars

\* a session in which one request has revealed a region by cascade and a
\* revealed cell has been the target of a further request
C17_Witness ==
    /\ Active
    /\ revealedCells > Cardinality(RevealedPositions)
    /\ Cardinality({p \in Positions : At(p).isReveal /\ ZeroCell(p)}) >= 2

\* C18: a reveal request on a flagged cell changes nothing, also when the
\* cell is a hazard; a flag request on a revealed cell changes nothing; and
\* in an Active session no cell is both flagged and revealed.
C18_FlagAndRevealExclude ==
    [][/\ \A row \in RowIdx, col \in ColIdx :
             (cells[row][col].isFlagged /\ handleCellClick(row, col))
                => UNCHANGED vars
       /\ \A row \in RowIdx, col \in ColIdx :
             (cells[row][col].isReveal /\ handleCellContextMenu(row, col))
                => UNCHANGED vars
       /\ Active' =>
             \A p \in Positions' :
                ~(cells'[p[1]][p[2]].isFlagged /\ cells'[p[1]][p[2]].isReveal)]_vars

\* an Active session with a flagged hazard, another flagged cell and a
\* revealed cell
C18_Witness ==
    /\ Active
    /\ \E p \in Positions : At(p).isFlagged /\ At(p).isMine
    /\ \E p \in Positions : At(p).isFlagged /\ ~At(p).isMine
    /\ RevealedPositions # {}

\* C19: the step to Finished(Loss) reveals every hazard cell, flagged ones
\* included, and no non-hazard cell; in an Active or won session no hazard
\* cell is revealed.
C19_HazardsRevealedOnlyAtLoss ==
    [][/\ (Active /\ Loss') =>
             /\ \A p \in Positions :
                   At(p).isMine => cells'[p[1]][p[2]].isReveal
             /\ \A p \in Positions :
                   ~At(p).isMine =>
                      cells'[p[1]][p[2]].isReveal = At(p).isReveal
       /\ (Active' \/ Win') => ~HazardRevealed']_vars

\* a lost session with two hazards, one of them flagged, both revealed
C19_Witness ==
    /\ Loss
    /\ numberOfMines = 2
    /\ \A p \in MinePositions : At(p).isReveal
    /\ \E p \in MinePositions : At(p).isFlagged

\* C20: the remaining-flags counter plus the number of flagged cells is
\* hazardCount in every state of a session, and a reveal request (with its
\* cascade, loss or win) changes neither the counter nor the flags.
C20_CounterPlusFlags ==
    [][/\ pc' = "idle" =>
             counter' + Cardinality(FlaggedPositions') = numberOfMines'
       /\ \/ counter' = counter /\ FlaggedPositions' = FlaggedPositions
          \/ ~\E row \in RowIdx, col \in ColIdx : handleCellClick(row, col)]_vars

\* a finished session with a flag placed, a flag left and cells revealed
C20_Witness ==
    /\ pc = "idle"
    /\ isGameFinished
    /\ counter = 1
    /\ Cardinality(FlaggedPositions) = 1
    /\ revealedCells > 1

====
